---- MODULE Spec2Model ----
(***************************************************************************)
(* Model of the knowledge-base chat application:                           *)
(*   - lambda_function.py: the request handler (retrieve-and-generate,     *)
(*     citation extraction, rerank, URL signing, response);                *)
(*   - chat_history.py, chat_handler.py, sidebar_manager.py,               *)
(*     auth_handler.py, api_client.py: the UI sessions and the ChatHistory *)
(*     table.                                                              *)
(* Strings that the code only compares are TLA+ strings; texts that the    *)
(* code splits, strips, joins or searches are sequences of characters.     *)
(* Scores are in hundredths (0.3 is 30).                                   *)
(***************************************************************************)
EXTENDS Integers, Sequences, FiniteSets, TLC

VARIABLES
    \* ---- the request handler (one warm container) ----
    pc,                 \* position of the handler: idle, retrieve, rerank, sign, done
    event,              \* the event, until the handler has read it (get_request_data)
    api_call,           \* the call of APIClient.call_api that posted the event, if any
    user_query,         \* local user_query of lambda_handler
    session_id,         \* local session_id of lambda_handler
    retrieve_request,   \* local retrieve_request
    calls,              \* the services this invocation has called
    kb_session,         \* sessionId of the retrieval service's response
    generated_response, \* local generated_response
    references,         \* local references (extract_references)
    ranked_references,  \* local ranked_references (rerank_references)
    rerank_failed,      \* whether rerank_references took its except branch
    response,           \* the response returned, or None
    trace,              \* what the event and the services gave this invocation
    memo,               \* an earlier invocation: its trace and its response
    \* ---- the UI sessions and the ChatHistory table ----
    now,                \* time.time(), in clock ticks
    table,              \* the ChatHistory table: a set of items, keyed by user_id and timestamp
    st,                 \* st.session_state of every browser session
    ui_pc,              \* position of every browser session's script: ready, calling
    clock_read,         \* whether every browser session has saved at the present clock value
    feedback_table      \* the ChatFeedback table: a set of items, keyed by feedback_id

lambda_vars == <<pc, event, api_call, user_query, session_id, retrieve_request, calls, kb_session,
                 generated_response, references, ranked_references, rerank_failed,
                 response, trace, memo>>
ui_vars == <<now, table, st, ui_pc, clock_read, feedback_table>>
vars == <<lambda_vars, ui_vars>>

\* Python's None, and a key that a dict does not hold.
None == "None"
Absent == "Absent"

(***************************************************************************)
(* Bounds of the model.                                                    *)
(***************************************************************************)
MaxRefs == 3        \* retrieved references in one retrieval response
MaxTime == 2        \* the last clock tick
MaxPanelTime == 3   \* the last clock tick of the session with its panels
MaxMessages == 1    \* messages of one browser session that a chat input may add to
TicksPerSecond == 2 \* clock ticks (values of time.time()) in one second
SecondsPerDay == 1  \* seconds in one calendar day

(***************************************************************************)
(* Texts: sequences over a small alphabet.                                 *)
(***************************************************************************)
RECURSIVE lstrip(_)
lstrip(s) == IF s # <<>> /\ Head(s) = " " THEN lstrip(Tail(s)) ELSE s

RECURSIVE rstrip(_)
rstrip(s) ==
    IF s # <<>> /\ s[Len(s)] = " " THEN rstrip(SubSeq(s, 1, Len(s) - 1)) ELSE s

\* str.strip()
strip(s) == rstrip(lstrip(s))

\* needle in hay (Python's substring test; the empty text is in every text)
contains(hay, needle) ==
    \E i \in 0..(Len(hay) - Len(needle)) :
        SubSeq(hay, i + 1, i + Len(needle)) = needle

\* str.split('.'): the pieces between the dots, empty pieces included
RECURSIVE split_from(_, _, _)
split_from(s, i, cur) ==
    IF i > Len(s) THEN <<cur>>
    ELSE IF s[i] = "." THEN <<cur>> \o split_from(s, i + 1, <<>>)
    ELSE split_from(s, i + 1, Append(cur, s[i]))

split(s) == split_from(s, 1, <<>>)

\* ' '.join(parts)
RECURSIVE join(_)
join(parts) ==
    IF parts = <<>> THEN <<>>
    ELSE IF Len(parts) = 1 THEN parts[1]
    ELSE parts[1] \o <<" ">> \o join(Tail(parts))

\* All sequences over S of length at most n.
BoundedSeq(S, n) == UNION {[1..k -> S] : k \in 0..n}

\* dict.get(key, default) on a record used as a Python dict
get(d, k, default) == IF k \in DOMAIN d THEN d[k] ELSE default

\* The dict with no keys.
EmptyDict == [k \in {} |-> None]

\* Python truthiness of an optional string
truthy(x) == x # None /\ x # ""

(***************************************************************************)
(* lambda_function.py                                                      *)
(***************************************************************************)
RELEVANCE_THRESHOLD == 30       \* 0.3, in hundredths
DEFAULT_EXPIRATION == 1800      \* generate_presigned_url(bucket, key, expiration=1800)
URL_EXPIRATION_SECONDS == 3600  \* urlExpirationTime: utcnow() + timedelta(hours=1)

\* s3_client.generate_presigned_url: the URL, or None (the empty tuple) when the
\* call raises. `ok` is the outcome of the call.
generate_presigned_url(bucket, key, expiration, ok) ==
    IF ok THEN <<bucket, key, expiration>> ELSE <<>>

\* process_s3_urls: `outcomes[i]` is the outcome of the i-th signing call.
\* The loop sets ref['presigned_url'] on the dict itself.
RECURSIVE process_s3_urls_from(_, _, _)
process_s3_urls_from(refs, outcomes, i) ==
    IF i > Len(refs) THEN <<>>
    ELSE LET ref == refs[i]
             presigned_url ==
                 IF "uri" \in DOMAIN ref
                 THEN generate_presigned_url(ref.uri.bucket, ref.uri.key,
                                             DEFAULT_EXPIRATION, outcomes[i])
                 ELSE <<>>
             rest == process_s3_urls_from(refs, outcomes, i + 1)
         IN  IF presigned_url # <<>>
             THEN <<[presigned_url |-> presigned_url] @@ ref>> \o rest
             ELSE rest

\* A variant that appends the reference outside the `if presigned_url:` test.
process_s3_urls_keep_all(refs, outcomes) ==
    [i \in 1..Len(refs) |->
        IF outcomes[i]
        THEN [presigned_url |->
                 generate_presigned_url(refs[i].uri.bucket, refs[i].uri.key,
                                        DEFAULT_EXPIRATION, TRUE)] @@ refs[i]
        ELSE refs[i]]

process_s3_urls(refs, outcomes) == process_s3_urls_from(refs, outcomes, 1)

\* references[i] with Python's indexing (negative indices count from the end)
py_valid_index(seq, i) == -Len(seq) <= i /\ i < Len(seq)
py_index(seq, i) == IF i >= 0 THEN seq[i + 1] ELSE seq[Len(seq) + i + 1]

\* A variant whose sort key is the relevance_score alone.
key_less_by_score(a, b) == a.relevance_score < b.relevance_score

\* The sort key of rerank_references: (used_in_response, relevance_score).
key_less(a, b) ==
    \/ ~a.used_in_response /\ b.used_in_response
    \/ a.used_in_response = b.used_in_response /\ a.relevance_score < b.relevance_score

\* list.sort(key=..., reverse=True): descending and stable.
RECURSIVE insert_desc(_, _)
insert_desc(sorted, x) ==
    IF sorted = <<>> THEN <<x>>
    ELSE IF key_less(Head(sorted), x) THEN <<x>> \o sorted
    ELSE <<Head(sorted)>> \o insert_desc(Tail(sorted), x)

RECURSIVE sort_desc_from(_, _, _)
sort_desc_from(seq, i, acc) ==
    IF i > Len(seq) THEN acc ELSE sort_desc_from(seq, i + 1, insert_desc(acc, seq[i]))

sort_desc(seq) == sort_desc_from(seq, 1, <<>>)

\* The loop of rerank_references over the results, before the sort.
RECURSIVE rank_from(_, _, _, _)
rank_from(refs, results, generated, idx) ==
    IF idx > Len(results) THEN <<>>
    ELSE LET result == results[idx]
             original_ref == py_index(refs, get(result, "index", 0))
             relevance_score == get(result, "relevance_score", 0)
             is_used == contains(generated, original_ref.snippet)
             ranked_ref == [uri |-> original_ref.uri,
                            snippet |-> original_ref.snippet,
                            relevance_score |-> relevance_score,
                            rank |-> idx,
                            used_in_response |-> is_used]
             rest == rank_from(refs, results, generated, idx + 1)
         IN  IF relevance_score >= RELEVANCE_THRESHOLD
             THEN <<ranked_ref>> \o rest
             ELSE rest

\* Whether rerank_references raises inside its try block: the rerank call raises,
\* or a result's index is not an index of references.
rerank_raises(refs, outcome) ==
    \/ outcome.raises
    \/ \E k \in 1..Len(outcome.results) :
           ~py_valid_index(refs, get(outcome.results[k], "index", 0))

\* rerank_references: `outcome` is what the rerank service does.
rerank_references(refs, outcome, generated) ==
    IF rerank_raises(refs, outcome) THEN refs
    ELSE sort_desc(rank_from(refs, outcome.results, generated, 1))

\* The sentence test of extract_references.
sentence_used(snippet, generated) ==
    \E k \in 1..Len(split(snippet)) :
        LET sentence == strip(split(snippet)[k])
        IN  sentence # <<>> /\ contains(generated, sentence)

\* document_snippets[uri].append(snippet), on an insertion-ordered dict held as a
\* sequence of [uri, snippets].
add_snippet(document_snippets, uri, snippet) ==
    IF \E i \in 1..Len(document_snippets) : document_snippets[i].uri = uri
    THEN [i \in 1..Len(document_snippets) |->
            IF document_snippets[i].uri = uri
            THEN [document_snippets[i] EXCEPT !.snippets = Append(@, snippet)]
            ELSE document_snippets[i]]
    ELSE Append(document_snippets, [uri |-> uri, snippets |-> <<snippet>>])

\* All retrievedReferences of all citations, in the order the loops visit them.
RECURSIVE retrieved(_)
retrieved(citations) ==
    IF citations = <<>> THEN <<>>
    ELSE get(Head(citations), "retrievedReferences", <<>>) \o retrieved(Tail(citations))

\* The first loop of extract_references: <<document_snippets, used_citations>>.
RECURSIVE collect_snippets(_, _, _, _, _)
collect_snippets(refs, i, generated, document_snippets, used_citations) ==
    IF i > Len(refs) THEN <<document_snippets, used_citations>>
    ELSE LET reference == refs[i]
         IN  IF "uri" \in DOMAIN reference
             THEN LET uri == reference.uri
                      snippet == strip(get(reference, "text", <<>>))
                  IN  collect_snippets(refs, i + 1, generated,
                          add_snippet(document_snippets, uri, snippet),
                          IF sentence_used(snippet, generated)
                          THEN used_citations \cup {uri} ELSE used_citations)
             ELSE collect_snippets(refs, i + 1, generated,
                                   document_snippets, used_citations)

first3(seq) == SubSeq(seq, 1, IF Len(seq) < 3 THEN Len(seq) ELSE 3)

extract_references(citations, generated) ==
    LET got == collect_snippets(retrieved(citations), 1, generated, <<>>, {})
        document_snippets == got[1]
        used_citations == got[2]
    IN  [i \in 1..Len(document_snippets) |->
            [uri |-> document_snippets[i].uri,
             snippet |-> join(first3(document_snippets[i].snippets)),
             used_in_response |-> document_snippets[i].uri \in used_citations]]

\* A variant without the test of used_in_response.
validate_scores_only(refs) ==
    IF refs = <<>> THEN <<FALSE, "No supporting references found">>
    ELSE IF \E i \in 1..Len(refs) :
                get(refs[i], "relevance_score", 0) < RELEVANCE_THRESHOLD
    THEN <<FALSE, "Some references have low relevance scores">>
    ELSE <<TRUE, "">>

\* validate_response_relevance: <<is_valid, message>>
validate_response_relevance(refs) ==
    IF refs = <<>> THEN <<FALSE, "No supporting references found">>
    ELSE IF \E i \in 1..Len(refs) :
                get(refs[i], "relevance_score", 0) < RELEVANCE_THRESHOLD
    THEN <<FALSE, "Some references have low relevance scores">>
    ELSE IF ~\E i \in 1..Len(refs) : get(refs[i], "used_in_response", FALSE)
    THEN <<FALSE, "Response may not be fully supported by references">>
    ELSE <<TRUE, "">>

\* A variant of the filter that keeps every reference.
relevant_of_all(ranked) == ranked

\* The filter of lambda_handler on ranked_references.
RECURSIVE relevant_of(_)
relevant_of(ranked) ==
    IF ranked = <<>> THEN <<>>
    ELSE IF get(Head(ranked), "relevance_score", 0) >= RELEVANCE_THRESHOLD
    THEN <<Head(ranked)>> \o relevant_of(Tail(ranked))
    ELSE relevant_of(Tail(ranked))

\* The dicts of ranked_references after process_s3_urls: the loop writes
\* presigned_url into the dicts that relevant_references shares with it.
RECURSIVE signed_in_place(_, _, _)
signed_in_place(ranked, outcomes, n) ==
    IF ranked = <<>> THEN <<>>
    ELSE LET ref == Head(ranked)
         IN  IF get(ref, "relevance_score", 0) >= RELEVANCE_THRESHOLD
             THEN <<Head(process_s3_urls(<<ref>>, <<outcomes[n]>>) \o <<ref>>)>>
                  \o signed_in_place(Tail(ranked), outcomes, n + 1)
             ELSE <<ref>> \o signed_in_place(Tail(ranked), outcomes, n)

(***************************************************************************)
(* JSON texts: a flat object is the token sequence { k1 v1 k2 v2 ... }.    *)
(***************************************************************************)
KeyOrder == <<"user_query", "sessionId">>

RECURSIVE dumps_keys(_, _)
dumps_keys(d, keys) ==
    IF keys = <<>> THEN <<>>
    ELSE (IF Head(keys) \in DOMAIN d THEN <<Head(keys), d[Head(keys)]>> ELSE <<>>)
         \o dumps_keys(d, Tail(keys))

\* json.dumps of a request body
json_dumps(d) == <<"{">> \o dumps_keys(d, KeyOrder) \o <<"}">>

\* Whether json.loads accepts the text.
json_valid(text) ==
    /\ Len(text) >= 2
    /\ text[1] = "{"
    /\ text[Len(text)] = "}"
    /\ (Len(text) - 2) % 2 = 0
    /\ \A i \in 2..(Len(text) - 1) : text[i] \notin {"{", "}"}

\* json.loads of an accepted text: a later occurrence of a key wins.
json_loads(text) ==
    LET n == (Len(text) - 2) \div 2
        keys == {text[2 * i] : i \in 1..n}
    IN  [k \in keys |->
            text[2 * (CHOOSE i \in 1..n :
                        /\ text[2 * i] = k
                        /\ \A j \in 1..n : text[2 * j] = k => j <= i) + 1]]

(***************************************************************************)
(* api_client.py                                                           *)
(***************************************************************************)
\* The request_body that call_api posts.
call_api_request_body(query, sid) ==
    IF truthy(sid) THEN [user_query |-> query, sessionId |-> sid]
    ELSE [user_query |-> query]

(***************************************************************************)
(* The inputs of the handler.                                              *)
(***************************************************************************)
Uris == {[bucket |-> "docs", key |-> "k1"], [bucket |-> "docs", key |-> "k2"]}
RawTexts == {<<"a", ".", "b">>, <<" ", "b">>}
GeneratedTexts == {<<"a">>, <<"b">>}
QueryChoices == {Absent, "", "q1"}
SessionChoices == {Absent, "", "s1"}
KbSessions == {Absent, "s2"}
ScoreChoices == {10, 30, 90}

body_of(q, sid) ==
    (IF q = Absent THEN EmptyDict ELSE [user_query |-> q])
    @@ (IF sid = Absent THEN EmptyDict ELSE [sessionId |-> sid])

Bodies == {body_of(q, sid) : q \in QueryChoices, sid \in SessionChoices}

NoText == <<>>
InvalidJson == <<"{", "user_query">>

\* An event is [kind, body, text]: not a dict; the body itself; a dict holding the
\* body as a dict; a dict holding the body as a JSON string.
Events ==
    {[kind |-> "not_dict", body |-> EmptyDict, text |-> NoText]}
    \cup {[kind |-> k, body |-> b, text |-> NoText] :
              k \in {"direct", "body_dict"}, b \in Bodies}
    \cup {[kind |-> "body_str", body |-> EmptyDict, text |-> t] :
              t \in {json_dumps(b) : b \in Bodies} \cup {InvalidJson}}

NoCall == [used |-> FALSE, query |-> None, session_id |-> None]

\* The event API Gateway hands over for a request posted by call_api.
api_event(call) ==
    [kind |-> "body_str", body |-> EmptyDict,
     text |-> json_dumps(call_api_request_body(call.query, call.session_id))]

ApiCalls == {[used |-> TRUE, query |-> "q1", session_id |-> sid] :
                 sid \in {None, "", "s1"}}

RetrievedChoices ==
    {[text |-> t] : t \in RawTexts}
    \cup {[uri |-> u, text |-> t] : u \in Uris, t \in RawTexts}

\* The citations of a retrieval response: at most MaxRefs retrieved references,
\* spread over two citations.
CitationLists ==
    UNION {{<<[retrievedReferences |-> SubSeq(refs, 1, cut)],
              [retrievedReferences |-> SubSeq(refs, cut + 1, Len(refs))]>> :
                cut \in 0..Len(refs)} :
           refs \in BoundedSeq(RetrievedChoices, MaxRefs)}

kb_response(text, citations, sid) ==
    [output |-> [text |-> text], citations |-> citations]
    @@ (IF sid = Absent THEN EmptyDict ELSE [sessionId |-> sid])

IndexChoices == -1..1

\* A rerank result list is no longer than the number of documents of the model.
MaxResults == Cardinality(Uris)

\* A rerank result may lack its index or its relevance_score.
ResultChoices ==
    {[index |-> i, relevance_score |-> sc] : i \in IndexChoices, sc \in ScoreChoices}
    \cup {[relevance_score |-> sc] : sc \in {90}}
    \cup {[index |-> i] : i \in {0}}

RerankOutcomes ==
    {[raises |-> TRUE, results |-> <<>>]}
    \cup {[raises |-> FALSE, results |-> r] : r \in BoundedSeq(ResultChoices, MaxResults)}

(***************************************************************************)
(* lambda_handler, step by step: every call of an external service is a    *)
(* step, whose outcome the service chooses.                                *)
(***************************************************************************)
NoEvent == [kind |-> "none", body |-> EmptyDict, text |-> NoText]
NoResponse == [statusCode |-> 0, body |-> EmptyDict]

\* A variant that keeps the session of the invocation before when the event
\* carries none.
get_request_data_sticky(ev) ==
    LET failed == [ok |-> FALSE, user_query |-> None, session_id |-> None]
        from(body) == [ok |-> TRUE,
                       user_query |-> get(body, "user_query", None),
                       session_id |-> get(body, "sessionId", session_id)]
    IN  CASE ev.kind = "not_dict" -> failed
          [] ev.kind = "body_str" ->
                IF json_valid(ev.text) THEN from(json_loads(ev.text)) ELSE failed
          [] ev.kind = "body_dict" -> from(ev.body)
          [] OTHER -> from(ev.body)

\* A variant that reads the event itself and never its 'body'.
get_request_data_event_only(ev) ==
    IF ev.kind = "not_dict"
    THEN [ok |-> FALSE, user_query |-> None, session_id |-> None]
    ELSE [ok |-> TRUE,
          user_query |-> get(ev.body, "user_query", None),
          session_id |-> get(ev.body, "sessionId", None)]

\* get_request_data: [ok, user_query, session_id]; ok is FALSE when it raises.
get_request_data(ev) ==
    LET failed == [ok |-> FALSE, user_query |-> None, session_id |-> None]
        from(body) == [ok |-> TRUE,
                       user_query |-> get(body, "user_query", None),
                       session_id |-> get(body, "sessionId", None)]
    IN  CASE ev.kind = "not_dict" -> failed
          [] ev.kind = "body_str" ->
                IF json_valid(ev.text) THEN from(json_loads(ev.text)) ELSE failed
          [] ev.kind = "body_dict" -> from(ev.body)
          [] OTHER -> from(ev.body)

create_response(status_code, body) == [statusCode |-> status_code, body |-> body]

\* A variant that tests `session_id is not None` instead of its truth value.
build_retrieve_request_not_none(query, sid) ==
    [input |-> [text |-> query]]
    @@ (IF sid # None THEN [sessionId |-> sid] ELSE EmptyDict)

\* The request lambda_handler builds for retrieve_and_generate.
build_retrieve_request(query, sid) ==
    [input |-> [text |-> query]]
    @@ (IF truthy(sid) THEN [sessionId |-> sid] ELSE EmptyDict)

\* A variant that answers without the session of the request.
error_response_without_session(sid) ==
    create_response(500,
        [error |-> "error",
         generated_response |-> "An error occurred while processing your request.",
         detailed_references |-> <<>>,
         sessionId |-> None])

error_response(sid) ==
    create_response(500,
        [error |-> "error",
         generated_response |-> "An error occurred while processing your request.",
         detailed_references |-> <<>>,
         sessionId |-> sid])

ok_response(generated, refs_with_urls, kb_sid) ==
    LET validation == validate_response_relevance(refs_with_urls)
    IN  create_response(200,
            [generated_response |-> generated,
             detailed_references |-> refs_with_urls,
             urlExpirationTime |-> URL_EXPIRATION_SECONDS,
             sessionId |-> kb_sid,
             sourceCount |-> Len(refs_with_urls),
             validation_status |-> IF validation[1] THEN "valid" ELSE "warning",
             validation_message |-> IF validation[1] THEN "" ELSE validation[2]])

LambdaInit ==
    /\ pc = "idle"
    /\ event = NoEvent
    /\ api_call = NoCall
    /\ user_query = None
    /\ session_id = None
    /\ retrieve_request = EmptyDict
    /\ calls = {}
    /\ kb_session = None
    /\ generated_response = NoText
    /\ references = <<>>
    /\ ranked_references = <<>>
    /\ rerank_failed = FALSE
    /\ response = NoResponse

\* lambda_handler up to the retrieval call: get_request_data, the validation and
\* the preparation of retrieve_request.
Receive(ev, call) ==
    /\ pc = "idle"
    /\ event' = ev
    /\ api_call' = call
    /\ LET rd == get_request_data(ev)
       IN  /\ user_query' = rd.user_query
           /\ session_id' = rd.session_id
           /\ IF ~rd.ok
              THEN /\ response' =
                          create_response(400, [error |-> "Error processing request"])
                   /\ pc' = "done"
                   /\ retrieve_request' = EmptyDict
              ELSE IF ~truthy(rd.user_query)
              THEN /\ response' =
                          create_response(400, [error |-> "user_query is required"])
                   /\ pc' = "done"
                   /\ retrieve_request' = EmptyDict
              ELSE /\ response' = NoResponse
                   /\ pc' = "retrieve"
                   /\ retrieve_request' =
                          build_retrieve_request(rd.user_query, rd.session_id)
    /\ UNCHANGED <<calls, kb_session, generated_response, references,
                   ranked_references, rerank_failed>>

ReceiveDirect ==
    /\ pc = "idle"
    /\ \E ev \in Events : Receive(ev, NoCall)
    /\ UNCHANGED <<ui_vars, trace, memo>>

ReceiveFromApiClient ==
    /\ pc = "idle"
    /\ \E call \in ApiCalls : Receive(api_event(call), call)
    /\ UNCHANGED <<ui_vars, trace, memo>>

\* client.retrieve_and_generate returns `kb`; then extract_references. The handler
\* does not read the event again.
RetrieveAndGenerateWith(kb) ==
    /\ pc = "retrieve"
    /\ calls' = calls \cup {"retrieve_and_generate"}
    /\ generated_response' = kb.output.text
    /\ references' = extract_references(kb.citations, kb.output.text)
    /\ kb_session' = get(kb, "sessionId", None)
    /\ pc' = "rerank"
    /\ event' = NoEvent
    /\ api_call' = NoCall
    /\ UNCHANGED <<user_query, session_id, retrieve_request, ranked_references,
                   rerank_failed, response>>

\* client.retrieve_and_generate raises: the outer except answers 500.
RetrieveRaises ==
    /\ pc = "retrieve"
    /\ calls' = calls \cup {"retrieve_and_generate"}
    /\ response' = error_response(session_id)
    /\ pc' = "done"
    /\ event' = NoEvent
    /\ api_call' = NoCall
    /\ UNCHANGED <<user_query, session_id, retrieve_request, kb_session,
                   generated_response, references, ranked_references, rerank_failed>>

\* rerank_references: the rerank service answers `outcome`.
RerankWith(outcome) ==
    /\ pc = "rerank"
    /\ calls' = calls \cup {"invoke_model"}
    /\ ranked_references' = rerank_references(references, outcome, generated_response)
    /\ rerank_failed' = rerank_raises(references, outcome)
    /\ pc' = "sign"
    /\ UNCHANGED <<event, api_call, user_query, session_id, retrieve_request,
                   kb_session, generated_response, references, response>>

\* The filter, process_s3_urls (one signing call per relevant reference, with
\* outcome outcomes[i]), the validation and the response.
SignAndRespondWith(outcomes) ==
    /\ pc = "sign"
    /\ LET relevant_references == relevant_of(ranked_references)
           references_with_urls == process_s3_urls(relevant_references, outcomes)
       IN  /\ Len(outcomes) = Len(relevant_references)
           /\ calls' = IF relevant_references = <<>> THEN calls
                       ELSE calls \cup {"generate_presigned_url"}
           /\ response' = ok_response(generated_response, references_with_urls,
                                      kb_session)
           /\ ranked_references' = signed_in_place(ranked_references, outcomes, 1)
    /\ pc' = "done"
    /\ UNCHANGED <<event, api_call, user_query, session_id, retrieve_request,
                   kb_session, generated_response, references, rerank_failed>>

\* The handler has returned; the container waits for the next event.
Return ==
    /\ pc = "done"
    /\ UNCHANGED <<ui_vars, trace, memo>>
    /\ pc' = "idle"
    /\ event' = NoEvent
    /\ api_call' = NoCall
    /\ user_query' = None
    /\ session_id' = None
    /\ retrieve_request' = EmptyDict
    /\ calls' = {}
    /\ kb_session' = None
    /\ generated_response' = NoText
    /\ references' = <<>>
    /\ ranked_references' = <<>>
    /\ rerank_failed' = FALSE
    /\ response' = NoResponse

RetrieveAndGenerate ==
    /\ pc = "retrieve"
    /\ \E text \in GeneratedTexts, citations \in CitationLists, sid \in KbSessions :
           RetrieveAndGenerateWith(kb_response(text, citations, sid))
    /\ UNCHANGED <<ui_vars, trace, memo>>

RetrieveFails ==
    /\ RetrieveRaises
    /\ UNCHANGED <<ui_vars, trace, memo>>

Rerank ==
    /\ pc = "rerank"
    /\ \E outcome \in RerankOutcomes : RerankWith(outcome)
    /\ UNCHANGED <<ui_vars, trace, memo>>

SignAndRespond ==
    /\ pc = "sign"
    /\ \E outcomes \in [1..Len(relevant_of(ranked_references)) -> BOOLEAN] :
           SignAndRespondWith(outcomes)
    /\ UNCHANGED <<ui_vars, trace, memo>>

LambdaNext ==
    \/ ReceiveDirect
    \/ ReceiveFromApiClient
    \/ RetrieveAndGenerate
    \/ RetrieveFails
    \/ Rerank
    \/ SignAndRespond
    \/ Return

(***************************************************************************)
(* chat_history.py: the ChatHistory table and ChatHistoryManager.          *)
(***************************************************************************)
\* str(int(t)) of a clock value
int_str(t) == ToString(t \div TicksPerSecond)

\* datetime.fromtimestamp(t).strftime('%Y-%m-%d'): the day of a clock value
date_of(t) == t \div (TicksPerSecond * SecondsPerDay)

\* json.dumps(references): [ { uri u relevance_score n } ... ]
RECURSIVE refs_dumps_from(_, _)
refs_dumps_from(refs, i) ==
    IF i > Len(refs) THEN <<>>
    ELSE <<"{", "uri", refs[i].uri,
           "relevance_score", ToString(refs[i].relevance_score), "}">>
         \o refs_dumps_from(refs, i + 1)

refs_dumps(refs) == <<"[">> \o refs_dumps_from(refs, 1) \o <<"]">>

\* The number a JSON number token stands for.
json_number(tok) == CHOOSE n \in 0..100 : ToString(n) = tok

\* A variant that parses the first object of the list only.
refs_loads_first(text) ==
    [i \in 1..(IF Len(text) > 2 THEN 1 ELSE 0) |->
        [uri |-> text[6 * (i - 1) + 4],
         relevance_score |-> json_number(text[6 * (i - 1) + 6])]]

\* json.loads of a dumped references list: six tokens per object.
refs_loads(text) ==
    [i \in 1..((Len(text) - 2) \div 6) |->
        [uri |-> text[6 * (i - 1) + 4],
         relevance_score |-> json_number(text[6 * (i - 1) + 6])]]

\* table.put_item: the item replaces the item of the same key, if any.
put_item(tbl, item) ==
    {i \in tbl : ~(i.user_id = item.user_id /\ i.timestamp = item.timestamp)}
    \cup {item}

\* The item save_chat prepares at clock value t.
chat_item(user, message, t) ==
    [user_id |-> user,
     timestamp |-> t,
     content |-> message.content,
     role |-> message.role,
     date |-> date_of(t),
     session_id |-> get(message, "session_id", None),
     references |-> refs_dumps(get(message, "references", <<>>)),
     conversation_id |-> get(message, "conversation_id", int_str(t))]

\* save_chat that returns True: the table afterwards.
save_chat(tbl, user, message, t) == put_item(tbl, chat_item(user, message, t))

\* table.query(Key('user_id').eq(user)): the user's items by ascending timestamp.
RECURSIVE by_timestamp(_)
by_timestamp(items) ==
    IF items = {} THEN <<>>
    ELSE LET first == CHOOSE i \in items : \A j \in items : i.timestamp <= j.timestamp
         IN  <<first>> \o by_timestamp(items \ {first})

\* A variant that scans the table without the key condition.
query_any_user(tbl, user) == by_timestamp(tbl)

query(tbl, user) == by_timestamp({i \in tbl : i.user_id = user})

\* An item as get_conversations returns it: the references parsed back.
loaded_item(item) == [item EXCEPT !.references = refs_loads(@)]

\* list.sort(key=lambda x: x['timestamp']): ascending and stable.
RECURSIVE insert_by_timestamp(_, _)
insert_by_timestamp(sorted, x) ==
    IF sorted = <<>> THEN <<x>>
    ELSE IF x.timestamp < Head(sorted).timestamp THEN <<x>> \o sorted
    ELSE <<Head(sorted)>> \o insert_by_timestamp(Tail(sorted), x)

RECURSIVE sort_by_timestamp(_)
sort_by_timestamp(seq) ==
    IF seq = <<>> THEN <<>>
    ELSE insert_by_timestamp(sort_by_timestamp(SubSeq(seq, 1, Len(seq) - 1)),
                             seq[Len(seq)])

\* get_conversations: conversations[date][conversation_id] is the list of the
\* items of that date and conversation, sorted by timestamp.
get_conversations(tbl, user) ==
    LET items == query(tbl, user)
        dates == {items[i].date : i \in 1..Len(items)}
        convs(d) == {items[i].conversation_id :
                        i \in {k \in 1..Len(items) : items[k].date = d}}
        in_group(d, c) ==
            LET keep(item) == item.date = d /\ item.conversation_id = c
            IN  SelectSeq(items, keep)
    IN  [d \in dates |->
            [c \in convs(d) |->
                sort_by_timestamp([k \in 1..Len(in_group(d, c)) |->
                                      loaded_item(in_group(d, c)[k])])]]

\* A variant that deletes every item of the user.
delete_all_of_user(tbl, user, conversation_id) == {i \in tbl : i.user_id # user}

\* delete_conversation that returns True: every item of the conversation that
\* the query returned is deleted.
delete_conversation(tbl, user, conversation_id) ==
    {i \in tbl : ~(i.user_id = user /\ i.conversation_id = conversation_id)}

(***************************************************************************)
(* The browser sessions: auth_handler.py, sidebar_manager.py,              *)
(* chat_handler.py, api_client.py.                                         *)
(***************************************************************************)
Browsers == {"b1", "b2"}
USER_ID == "user_h"             \* f"user_{hash(username)}"
TEST_USER_ID == "test_user"     \* f"test_user_{int(time.time())}"
Inputs == {"q1"}
R1 == [uri |-> "u1", relevance_score |-> 90]
R2 == [uri |-> "u2", relevance_score |-> 30]

\* What call_api returns: None, or the body of the handler's answer.
NoResult == [ok |-> FALSE, body |-> EmptyDict]
ApiResults ==
    {NoResult}
    \cup {[ok |-> TRUE,
           body |-> [generated_response |-> "answer",
                     detailed_references |-> refs,
                     sessionId |-> "s2"]] : refs \in {<<R1, R2>>}}
    \cup {[ok |-> TRUE, body |-> [error |-> "user_query is required"]]}

\* initialize_session_state on an empty session state, at clock value t, with
\* FeedbackHandler._initialize_session_state; selected_ref holds the keys
\* selected_ref_<idx>.
initial_session_state(t) ==
    [is_authenticated |-> FALSE,
     messages |-> <<>>,
     session_id |-> None,
     user_id |-> None,
     current_conversation_id |-> int_str(t),
     feedback_states |-> EmptyDict,
     show_feedback_categories |-> EmptyDict,
     selected_ref |-> EmptyDict]

\* create_new_session at clock value t
create_new_session(state, t) ==
    [state EXCEPT !.session_id = None,
                  !.messages = <<>>,
                  !.current_conversation_id = int_str(t)]

UiInit ==
    /\ now = 0
    /\ table = {}
    /\ st = [b \in Browsers |-> initial_session_state(0)]
    /\ ui_pc = [b \in Browsers |-> "ready"]
    /\ clock_read = [b \in Browsers |-> FALSE]
    /\ feedback_table = {}

\* time passes, up to the clock value `last`
TickUntil(last) ==
    /\ now < last
    /\ now' = now + 1
    /\ clock_read' = [b \in Browsers |-> FALSE]
    /\ UNCHANGED <<table, st, ui_pc, lambda_vars, feedback_table>>

Tick == TickUntil(MaxTime)

\* authenticate: the Login button with the right credentials
Login(b) ==
    /\ ui_pc[b] = "ready"
    /\ ~st[b].is_authenticated
    /\ st' = [st EXCEPT ![b] =
                 create_new_session([@ EXCEPT !.is_authenticated = TRUE,
                                              !.user_id = USER_ID], now)]
    /\ UNCHANGED <<now, table, ui_pc, clock_read, lambda_vars, feedback_table>>

\* logout: the session state is cleared and initialized again
Logout(b) ==
    /\ ui_pc[b] = "ready"
    /\ st[b].is_authenticated
    /\ st' = [st EXCEPT ![b] = initial_session_state(now)]
    /\ UNCHANGED <<now, table, ui_pc, clock_read, lambda_vars, feedback_table>>

\* The New Chat button
NewChat(b) ==
    /\ ui_pc[b] = "ready"
    /\ st[b].is_authenticated
    /\ st' = [st EXCEPT ![b] = create_new_session(@, now)]
    /\ UNCHANGED <<now, table, ui_pc, clock_read, lambda_vars, feedback_table>>

\* The sections of the sidebar: the days back to which each reaches, and from
\* which it starts (Today, Yesterday, Previous 7 days, Previous 30 days).
Sections == <<[back |-> 1, from |-> 0], [back |-> 1, from |-> 1],
              [back |-> 7, from |-> 0], [back |-> 30, from |-> 0]>>

\* The <<date, conversation_id>> groups that the sidebar shows a button for: each
\* conversation once, in the first section that holds one of its dates, with the
\* group of the earliest such date.
shown_groups(conversations, today) ==
    LET in_section(n, d) ==
            today - Sections[n].back <= d /\ d <= today - Sections[n].from
        conv_ids == UNION {DOMAIN conversations[d] : d \in DOMAIN conversations}
        dates_of(c) == {d \in DOMAIN conversations : c \in DOMAIN conversations[d]}
        sections_of(c) ==
            {n \in 1..Len(Sections) : \E d \in dates_of(c) : in_section(n, d)}
        first_section(c) == CHOOSE n \in sections_of(c) : \A m \in sections_of(c) : n <= m
        first_date(c) ==
            CHOOSE d \in dates_of(c) :
                /\ in_section(first_section(c), d)
                /\ \A e \in dates_of(c) : in_section(first_section(c), e) => d <= e
    IN  {<<first_date(c), c>> : c \in {x \in conv_ids : sections_of(x) # {}}}

\* load_conversation(messages)
load_conversation(state, messages) ==
    [state EXCEPT
        !.messages = [k \in 1..Len(messages) |->
                         [role |-> messages[k].role,
                          content |-> messages[k].content,
                          references |-> get(messages[k], "references", <<>>)]],
        !.current_conversation_id = messages[1].conversation_id]

\* A conversation button of the sidebar
LoadConversation(b) ==
    /\ ui_pc[b] = "ready"
    /\ st[b].is_authenticated
    /\ LET conversations == get_conversations(table, st[b].user_id)
       IN  \E g \in shown_groups(conversations, date_of(now)) :
               st' = [st EXCEPT ![b] = load_conversation(@, conversations[g[1]][g[2]])]
    /\ UNCHANGED <<now, table, ui_pc, clock_read, lambda_vars, feedback_table>>

\* A delete button of the sidebar: SidebarManager.delete_conversation, with
\* chat_manager.delete_conversation returning True
DeleteConversation(b) ==
    /\ ui_pc[b] = "ready"
    /\ st[b].is_authenticated
    /\ LET conversations == get_conversations(table, st[b].user_id)
       IN  \E g \in shown_groups(conversations, date_of(now)) :
               /\ table' = delete_conversation(table, st[b].user_id, g[2])
               /\ st' = [st EXCEPT ![b] =
                            IF @.current_conversation_id = g[2]
                            THEN create_new_session(@, now) ELSE @]
    /\ UNCHANGED <<now, ui_pc, clock_read, lambda_vars, feedback_table>>

user_message(state, user_input) ==
    [role |-> "user",
     content |-> user_input,
     session_id |-> state.session_id,
     conversation_id |-> state.current_conversation_id]

\* A variant that appends the user's message and calls the API whether or not the
\* message was saved.
handle_chat_input_unconditional(state, tbl, user, user_input, t, saved) ==
    LET message == user_message(state, user_input)
    IN  [state |-> [state EXCEPT !.messages = Append(@, message)],
         table |-> IF saved THEN save_chat(tbl, user, message, t) ELSE tbl,
         called |-> TRUE]

\* handle_chat_input up to the API call: the user's message is saved (`saved` is
\* whether save_chat returns True) and, if it was, appended and the API called.
\* The session state and the table afterwards, and whether call_api is called.
handle_chat_input(state, tbl, user, user_input, t, saved) ==
    LET message == user_message(state, user_input)
    IN  IF saved
        THEN [state |-> [state EXCEPT !.messages = Append(@, message)],
              table |-> save_chat(tbl, user, message, t),
              called |-> TRUE]
        ELSE [state |-> state, table |-> tbl, called |-> FALSE]

\* The chat input of a session whose clock has moved on since the session last
\* read it.
ChatInputWith(b, user_input, saved) ==
    /\ ui_pc[b] = "ready"
    /\ st[b].is_authenticated
    /\ Len(st[b].messages) < MaxMessages
    /\ ~clock_read[b]
    /\ clock_read' = [clock_read EXCEPT ![b] = TRUE]
    /\ LET after == handle_chat_input(st[b], table, st[b].user_id, user_input,
                                      now, saved)
       IN  /\ table' = after.table
           /\ st' = [st EXCEPT ![b] = after.state]
           /\ ui_pc' = [ui_pc EXCEPT ![b] = IF after.called THEN "calling" ELSE @]
    /\ UNCHANGED <<now, lambda_vars, feedback_table>>

ChatInput(b) ==
    /\ ui_pc[b] = "ready"
    /\ \E user_input \in Inputs, saved \in BOOLEAN : ChatInputWith(b, user_input, saved)

\* _process_api_response: the assistant's message and the new session_id
assistant_message(state, result) ==
    LET sid == IF "sessionId" \in DOMAIN result THEN result.sessionId
               ELSE state.session_id
    IN  [role |-> "assistant",
         content |-> get(result, "generated_response", "No response available"),
         references |-> get(result, "detailed_references", <<>>),
         session_id |-> sid,
         conversation_id |-> state.current_conversation_id]

\* A variant that answers a failed call as it answers a result without fields.
error_message_as_answer(state) == assistant_message(state, EmptyDict)

\* _handle_error_response: the message for a failed call
error_message(state) ==
    [role |-> "assistant",
     content |-> "Failed to get a valid response from the API.",
     references |-> <<>>,
     session_id |-> state.session_id,
     conversation_id |-> state.current_conversation_id]

\* The API call has returned and handle_chat_input goes on:
\* _process_api_response or _handle_error_response, whose save_chat returns `saved`.
ApiReturnsWith(b, result, saved) ==
    /\ ui_pc[b] = "calling"
    /\ ~clock_read[b]
    /\ clock_read' = [clock_read EXCEPT ![b] = TRUE]
    /\ ui_pc' = [ui_pc EXCEPT ![b] = "ready"]
    /\ UNCHANGED <<now, lambda_vars, feedback_table>>
    /\ LET message == IF result.ok THEN assistant_message(st[b], result.body)
                      ELSE error_message(st[b])
           state == [st[b] EXCEPT !.session_id = message.session_id]
       IN  IF saved
           THEN /\ table' = save_chat(table, state.user_id, message, now)
                /\ st' = [st EXCEPT ![b] =
                             [state EXCEPT !.messages = Append(@, message)]]
           ELSE /\ table' = table
                /\ st' = [st EXCEPT ![b] = state]

ApiReturns(b) ==
    /\ ui_pc[b] = "calling"
    /\ \E result \in ApiResults, saved \in BOOLEAN : ApiReturnsWith(b, result, saved)

\* test-chat-storage.py: test_chat_storage saves its test message (run once)
TestChatStorage ==
    /\ \A i \in table : i.user_id # TEST_USER_ID
    /\ table' = save_chat(table, TEST_USER_ID,
                          [role |-> "user",
                           content |-> "This is a test message",
                           session_id |-> "test_session",
                           conversation_id |-> "test_conversation"], now)
    /\ UNCHANGED <<now, st, ui_pc, clock_read, lambda_vars, feedback_table>>

(***************************************************************************)
(* ui_components.py and feedback_handler.py: the feedback buttons, the     *)
(* category panel and the References panel of the displayed messages.      *)
(* A message index idx counts from 0, as enumerate does.                   *)
(***************************************************************************)
\* display_chat_messages shows the feedback buttons of message idx
is_assistant(state, idx) ==
    /\ idx \in 0..(Len(state.messages) - 1)
    /\ state.messages[idx + 1].role = "assistant"

message_references(state, idx) == get(state.messages[idx + 1], "references", <<>>)

\* _display_feedback_buttons shows the category panel of message idx
panel_open(state, idx) ==
    /\ idx \in DOMAIN state.show_feedback_categories
    /\ state.show_feedback_categories[idx]

\* d[k] = v of a Python dict
dict_set(d, k, v) == [x \in DOMAIN d \cup {k} |-> IF x = k THEN v ELSE d[x]]

\* _store_feedback whose put_item succeeds: the table afterwards. The feedback_id
\* is a fresh uuid: the number of the item.
store_feedback(tbl, state, t, message_idx, feedback_type, message_content, categories, correction) ==
    tbl \cup
    {[feedback_id |-> Cardinality(tbl) + 1,
      timestamp |-> t,
      session_id |-> state.session_id,
      message_idx |-> message_idx,
      feedback_type |-> feedback_type,
      message_content |-> message_content,
      user_id |-> state.user_id]
     @@ (IF categories # <<>> THEN [categories |-> categories] ELSE EmptyDict)
     @@ (IF correction # <<>> THEN [correction |-> correction] ELSE EmptyDict)}

\* A variant that opens the category panel for every feedback type.
handle_feedback_opens_panel(state, idx, feedback_type) ==
    [state EXCEPT
        !.feedback_states = dict_set(@, idx, feedback_type),
        !.show_feedback_categories = dict_set(@, idx, TRUE)]

\* handle_feedback(idx, feedback_type, message_content) and what the button's
\* branch of _display_feedback_buttons sets after it: the session state.
handle_feedback(state, idx, feedback_type) ==
    [state EXCEPT
        !.feedback_states = dict_set(@, idx, feedback_type),
        !.show_feedback_categories =
            IF feedback_type = "down" THEN dict_set(@, idx, TRUE) ELSE @]

\* The feedback buttons are shown: no feedback given yet at this index.
buttons_shown(b, idx) ==
    /\ ui_pc[b] = "ready"
    /\ st[b].is_authenticated
    /\ is_assistant(st[b], idx)
    /\ idx \notin DOMAIN st[b].feedback_states

\* The thumbs-up button of message idx; `stored` is whether put_item succeeded
\* (_store_feedback reports its failure and goes on).
ThumbsUp(b, idx, stored) ==
    /\ buttons_shown(b, idx)
    /\ st' = [st EXCEPT ![b] = handle_feedback(@, idx, "up")]
    /\ feedback_table' =
          IF stored
          THEN store_feedback(feedback_table, st[b], now, idx, "positive",
                              st[b].messages[idx + 1].content, <<>>, <<>>)
          ELSE feedback_table
    /\ UNCHANGED <<now, table, ui_pc, clock_read, lambda_vars>>

\* The thumbs-down button of message idx
ThumbsDown(b, idx) ==
    /\ buttons_shown(b, idx)
    /\ st' = [st EXCEPT ![b] = handle_feedback(@, idx, "down")]
    /\ UNCHANGED <<now, table, ui_pc, clock_read, lambda_vars, feedback_table>>

\* The category panel of message idx is shown.
panel_shown(b, idx) ==
    /\ ui_pc[b] = "ready"
    /\ st[b].is_authenticated
    /\ is_assistant(st[b], idx)
    /\ panel_open(st[b], idx)

\* submit_negative_feedback and the Submit branch: the session state
submit_negative_feedback(state, idx) ==
    [state EXCEPT !.feedback_states = dict_set(@, idx, "down"),
                  !.show_feedback_categories = dict_set(@, idx, FALSE)]

\* The Submit button of the panel, with the ticked categories and the text of the
\* correction field
Submit(b, idx, selected_categories, correction, stored) ==
    /\ panel_shown(b, idx)
    /\ st' = [st EXCEPT ![b] = submit_negative_feedback(@, idx)]
    /\ feedback_table' =
          IF stored
          THEN store_feedback(feedback_table, st[b], now, idx, "negative",
                              st[b].messages[idx + 1].content, selected_categories,
                              IF strip(correction) # <<>> THEN correction ELSE <<>>)
          ELSE feedback_table
    /\ UNCHANGED <<now, table, ui_pc, clock_read, lambda_vars>>

\* The Cancel button of the panel
Cancel(b, idx) ==
    /\ panel_shown(b, idx)
    /\ st' = [st EXCEPT ![b].show_feedback_categories = dict_set(@, idx, FALSE)]
    /\ UNCHANGED <<now, table, ui_pc, clock_read, lambda_vars, feedback_table>>

\* show_references gives an absent key selected_ref_<idx> the value 0 before it
\* reads it.
selected_ref_of(state, idx) == get(state.selected_ref, idx, 0)

\* The button "Reference i+1" of message idx
ClickReference(b, idx, i) ==
    /\ ui_pc[b] = "ready"
    /\ st[b].is_authenticated
    /\ is_assistant(st[b], idx)
    /\ i \in 0..(Len(message_references(st[b], idx)) - 1)
    /\ st' = [st EXCEPT ![b].selected_ref = dict_set(@, idx, i)]
    /\ UNCHANGED <<now, table, ui_pc, clock_read, lambda_vars, feedback_table>>

UiNext ==
    \/ Tick
    \/ TestChatStorage
    \/ \E b \in Browsers :
         \/ Login(b)
         \/ Logout(b)
         \/ NewChat(b)
         \/ LoadConversation(b)
         \/ DeleteConversation(b)
         \/ ChatInput(b)
         \/ ApiReturns(b)

\* Placeholder values of the UI variables while only the handler runs.
UiIdle ==
    /\ now = 0
    /\ table = {}
    /\ st = <<>>
    /\ ui_pc = <<>>
    /\ clock_read = <<>>
    /\ feedback_table = {}

NoKb == kb_response(NoText, <<>>, Absent)
NoOutcome == [raises |-> FALSE, results |-> <<>>]
NoTrace == [event |-> NoEvent, kb_raises |-> FALSE, kb |-> NoKb,
            rerank |-> NoOutcome, sign |-> <<>>]
NoMemo == [set |-> FALSE, other_since |-> FALSE, trace |-> NoTrace,
           response |-> NoResponse]

TraceIdle ==
    /\ trace = NoTrace
    /\ memo = NoMemo

\* The handler alone, every invocation with fresh locals.
InitLambda == LambdaInit /\ UiIdle /\ TraceIdle
SpecLambda == InitLambda /\ [][LambdaNext]_vars

\* The browser sessions and the table; the handler is behind call_api.
Init == UiInit /\ LambdaInit /\ TraceIdle
Next == UiNext
Spec == Init /\ [][Next]_vars

(***************************************************************************)
(* One browser session with its feedback buttons, category panels and      *)
(* References panels.                                                      *)
(***************************************************************************)
PanelBrowsers == {"b1"}
PanelResults ==
    {NoResult}
    \cup {[ok |-> TRUE,
           body |-> [generated_response |-> "answer",
                     detailed_references |-> refs,
                     sessionId |-> "s2"]] : refs \in {<<R1>>, <<R1, R2>>}}
CategoryChoices == {<<>>, <<"Not Relevant", "Other">>}
CorrectionChoices == {<<" ">>, <<"f", "i", "x">>}
Indexes(b) == 0..(Len(st[b].messages) - 1)

PanelApiReturns ==
    \E b \in PanelBrowsers :
        /\ ui_pc[b] = "calling"
        /\ \E result \in PanelResults, saved \in BOOLEAN :
               ApiReturnsWith(b, result, saved)

PanelTick == TickUntil(MaxPanelTime)

PanelNext ==
    \/ PanelTick
    \/ PanelApiReturns
    \/ \E b \in PanelBrowsers :
         \/ Login(b)
         \/ NewChat(b)
         \/ LoadConversation(b)
         \/ ChatInput(b)
         \/ \E idx \in Indexes(b), stored \in BOOLEAN : ThumbsUp(b, idx, stored)
         \/ \E idx \in Indexes(b) : ThumbsDown(b, idx)
         \/ \E idx \in Indexes(b), selected_categories \in CategoryChoices,
                correction \in CorrectionChoices, stored \in BOOLEAN :
                Submit(b, idx, selected_categories, correction, stored)
         \/ \E idx \in Indexes(b) : Cancel(b, idx)
         \/ \E idx \in Indexes(b), i \in 0..1 : ClickReference(b, idx, i)

SpecPanels == Init /\ [][PanelNext]_vars

(***************************************************************************)
(* The handler in a warm container, one invocation after another.  `trace`  *)
(* records what the event and the services gave the running invocation and *)
(* `memo` keeps the trace and the response of one earlier invocation.  The *)
(* locals of a finished invocation are dead: the model leaves their last   *)
(* values in place, so that a read before a write would show.              *)
(***************************************************************************)
TracedEvents ==
    {[kind |-> "direct", body |-> b, text |-> NoText] :
        b \in {body_of("q1", "s1"), body_of("q1", Absent), body_of(Absent, "s1")}}

TracedKbs ==
    {kb_response(<<"a">>,
                 <<[retrievedReferences |->
                       <<[uri |-> [bucket |-> "docs", key |-> "k1"],
                          text |-> <<"a", ".", "b">>]>>]>>, "s2"),
     kb_response(<<"b">>,
                 <<[retrievedReferences |->
                       <<[uri |-> [bucket |-> "docs", key |-> "k1"],
                          text |-> <<"a", ".", "b">>],
                         [uri |-> [bucket |-> "docs", key |-> "k2"],
                          text |-> <<" ", "b">>]>>]>>, Absent)}

TracedOutcomes ==
    {[raises |-> TRUE, results |-> <<>>],
     [raises |-> FALSE, results |-> <<[index |-> 0, relevance_score |-> 90]>>],
     [raises |-> FALSE, results |-> <<[index |-> 1, relevance_score |-> 30],
                                      [index |-> 0, relevance_score |-> 10]>>]}

InvokeTraced ==
    /\ pc = "idle"
    /\ \E ev \in TracedEvents :
           /\ Receive(ev, NoCall)
           /\ trace' = [NoTrace EXCEPT !.event = ev]
    /\ UNCHANGED <<memo, ui_vars>>

RetrieveTraced ==
    /\ pc = "retrieve"
    /\ \E kb \in TracedKbs :
           /\ RetrieveAndGenerateWith(kb)
           /\ trace' = [trace EXCEPT !.kb = kb]
    /\ UNCHANGED <<memo, ui_vars>>

RetrieveFailsTraced ==
    /\ RetrieveRaises
    /\ trace' = [trace EXCEPT !.kb_raises = TRUE]
    /\ UNCHANGED <<memo, ui_vars>>

RerankTraced ==
    /\ pc = "rerank"
    /\ \E outcome \in TracedOutcomes :
           /\ RerankWith(outcome)
           /\ trace' = [trace EXCEPT !.rerank = outcome]
    /\ UNCHANGED <<memo, ui_vars>>

SignTraced ==
    /\ pc = "sign"
    /\ \E outcomes \in [1..Len(relevant_of(ranked_references)) -> BOOLEAN] :
           /\ SignAndRespondWith(outcomes)
           /\ trace' = [trace EXCEPT !.sign = outcomes]
    /\ UNCHANGED <<memo, ui_vars>>

\* The handler returns and the container stays warm.
ReturnWarm ==
    /\ pc = "done"
    /\ pc' = "idle"
    /\ calls' = {}
    /\ memo' = IF memo.set /\ memo.trace # trace
               THEN [memo EXCEPT !.other_since = TRUE] ELSE memo
    /\ UNCHANGED <<event, api_call, user_query, session_id, retrieve_request,
                   kb_session, generated_response, references, ranked_references,
                   rerank_failed, response, trace, ui_vars>>

\* The same, and this invocation is the one remembered.
ReturnRemembered ==
    /\ pc = "done"
    /\ ~memo.set
    /\ pc' = "idle"
    /\ calls' = {}
    /\ memo' = [set |-> TRUE, other_since |-> FALSE, trace |-> trace,
                response |-> response]
    /\ UNCHANGED <<event, api_call, user_query, session_id, retrieve_request,
                   kb_session, generated_response, references, ranked_references,
                   rerank_failed, response, trace, ui_vars>>

StatelessNext ==
    \/ InvokeTraced
    \/ RetrieveTraced
    \/ RetrieveFailsTraced
    \/ RerankTraced
    \/ SignTraced
    \/ ReturnWarm
    \/ ReturnRemembered

SpecStateless == InitLambda /\ [][StatelessNext]_vars

(***************************************************************************)
(* Properties of the request handler.                                      *)
(***************************************************************************)
Is200 == pc = "done" /\ response.statusCode = 200
detailed_references == response.body.detailed_references

\* C1: in every status-200 response no two entries of detailed_references have
\* the same uri, whatever the retrieval and rerank services return.
C1_NoDuplicateUri ==
    Is200 =>
        \A i, j \in 1..Len(detailed_references) :
            i # j => detailed_references[i].uri # detailed_references[j].uri

\* C2 (as claimed): in every status-200 response detailed_references is sorted by
\* relevance_score, highest first.
C2_SortedByScore ==
    Is200 =>
        \A i \in 1..(Len(detailed_references) - 1) :
            detailed_references[i].relevance_score
                >= detailed_references[i + 1].relevance_score

\* C2 (amended): in every status-200 response the entries whose snippet occurs in
\* the generated response come before the others, and among entries of the same
\* usage the relevance_score does not increase.
C2_SortedByUsageThenScore ==
    Is200 =>
        \A i \in 1..(Len(detailed_references) - 1) :
            LET a == detailed_references[i]
                b == detailed_references[i + 1]
            IN  \/ a.used_in_response /\ ~b.used_in_response
                \/ /\ a.used_in_response = b.used_in_response
                   /\ a.relevance_score >= b.relevance_score

\* A response whose used entry precedes an unused entry of a higher score.
C2_Witness ==
    /\ Is200
    /\ Len(detailed_references) = 2
    /\ detailed_references[1].used_in_response
    /\ ~detailed_references[2].used_in_response
    /\ detailed_references[1].relevance_score < detailed_references[2].relevance_score

has_url(ref) == "presigned_url" \in DOMAIN ref /\ ref.presigned_url # <<>>

\* C3: every entry of detailed_references in a status-200 response carries a
\* presigned_url; the entries are the reranked references whose signing
\* succeeded, in the order of the reranked list, and the others are omitted.
C3_OnlySignedInRankOrder ==
    Is200 =>
        /\ \A i \in 1..Len(detailed_references) : has_url(detailed_references[i])
        /\ detailed_references = SelectSeq(ranked_references, has_url)

\* A response for which one signing failed and a later one succeeded.
C3_Witness ==
    /\ Is200
    /\ Len(ranked_references) = 2
    /\ ~has_url(ranked_references[1])
    /\ has_url(ranked_references[2])
    /\ Len(detailed_references) = 1

\* The lifetime the UI announces: 'Source document link expires in 1 hour'.
LINK_NOTE_SECONDS == 3600

\* C4: the lifetime every document URL is signed with (ExpiresIn) is the hour
\* that the response reports as urlExpirationTime and that the UI note announces.
C4_SignedLifetimeAsAnnounced ==
    Is200 =>
        \A i \in 1..Len(detailed_references) :
            /\ detailed_references[i].presigned_url[3] = response.body.urlExpirationTime
            /\ detailed_references[i].presigned_url[3] = LINK_NOTE_SECONDS

\* The sessionId the event carries, read off the event itself.
carried_session(ev) ==
    IF ev.kind = "body_str"
    THEN IF \E i \in 1..Len(ev.text) : i % 2 = 0 /\ ev.text[i] = "sessionId"
         THEN ev.text[(CHOOSE i \in 1..Len(ev.text) :
                           i % 2 = 0 /\ ev.text[i] = "sessionId") + 1]
         ELSE None
    ELSE IF "sessionId" \in DOMAIN ev.body THEN ev.body.sessionId ELSE None

\* C8: call_api puts sessionId in the request body exactly when its session_id
\* argument is non-empty; lambda_handler passes sessionId to the retrieval service
\* exactly when the request carried a non-empty one, and passes that one; the
\* sessionId of a status-200 response is the one the retrieval service returned.
C8_SessionIdPassedThrough ==
    /\ api_call.used =>
           /\ carried_session(event) # None <=> truthy(api_call.session_id)
           /\ truthy(api_call.session_id) => carried_session(event) = api_call.session_id
    /\ pc = "retrieve" =>
           /\ session_id = carried_session(event)
           /\ "sessionId" \in DOMAIN retrieve_request <=> truthy(carried_session(event))
    /\ "retrieve_and_generate" \in calls =>
           /\ "sessionId" \in DOMAIN retrieve_request <=> truthy(session_id)
           /\ truthy(session_id) => retrieve_request.sessionId = session_id
    /\ Is200 => response.body.sessionId = kb_session

\* A response that returns the retrieval service's session for a request that
\* carried another one.
C8_Witness ==
    /\ Is200
    /\ "sessionId" \in DOMAIN retrieve_request
    /\ retrieve_request.sessionId = "s1"
    /\ response.body.sessionId = "s2"

\* The user_query the event carries, read off the event itself.
carried_query(ev) ==
    IF ev.kind = "body_str"
    THEN IF \E i \in 1..Len(ev.text) : i % 2 = 0 /\ ev.text[i] = "user_query"
         THEN ev.text[(CHOOSE i \in 1..Len(ev.text) :
                           i % 2 = 0 /\ ev.text[i] = "user_query") + 1]
         ELSE None
    ELSE IF "user_query" \in DOMAIN ev.body THEN ev.body.user_query ELSE None

\* The event is no dict, its body string is no JSON, or it carries no user_query
\* or an empty one.
bad_request(ev) ==
    \/ ev.kind = "not_dict"
    \/ ev.kind = "body_str" /\ ev.text = InvalidJson
    \/ ~truthy(carried_query(ev))

\* C16: lambda_handler answers 400 with an error body and without calling a
\* service exactly for an event that is no dict, has a body string that is no
\* JSON, or carries no or an empty user_query; otherwise it goes on with the
\* user_query and sessionId the event carries, whether the body is a JSON string,
\* a dict or the event itself.
C16_BadRequestIs400 ==
    /\ (pc \in {"retrieve", "done"} /\ event # NoEvent) =>
           /\ bad_request(event) <=> (pc = "done" /\ response.statusCode = 400)
           /\ ~bad_request(event) =>
                  /\ pc = "retrieve"
                  /\ user_query = carried_query(event)
                  /\ session_id = carried_session(event)
                  /\ retrieve_request.input.text = carried_query(event)
    /\ (pc = "done" /\ response.statusCode = 400) =>
           /\ calls = {}
           /\ DOMAIN response.body = {"error"}

\* A request whose body string is no JSON has been answered.
C16_Witness ==
    /\ pc = "done"
    /\ event.kind = "body_str" /\ event.text = InvalidJson
    /\ response.statusCode = 400

C18_RerankFailureKeepsReferences ==
    (Is200 /\ rerank_failed) =>
        /\ Len(ranked_references) = Len(references)
        /\ response.body.generated_response = generated_response
        /\ "generate_presigned_url" \notin calls =>
               \A i \in 1..Len(references) :
                   \E j \in 1..Len(detailed_references) :
                       detailed_references[j].uri = references[i].uri

\* C19: every entry of detailed_references in a status-200 response carries a
\* relevance_score of at least RELEVANCE_THRESHOLD.
C19_OnlyRelevantReturned ==
    Is200 =>
        \A i \in 1..Len(detailed_references) :
            /\ "relevance_score" \in DOMAIN detailed_references[i]
            /\ detailed_references[i].relevance_score >= RELEVANCE_THRESHOLD

\* A response with a reference, for which the rerank service scored a document
\* below the threshold.
C19_Witness ==
    /\ Is200
    /\ ~rerank_failed
    /\ Len(references) = 2
    /\ Len(detailed_references) = 1
    /\ detailed_references[1].relevance_score = RELEVANCE_THRESHOLD
    /\ "generate_presigned_url" \in calls
    /\ \A i \in 1..Len(ranked_references) : has_url(ranked_references[i])

\* C20: in a status-200 response sourceCount is the length of detailed_references,
\* validation_status is 'valid' exactly when detailed_references is not empty, no
\* entry scores below the threshold and some entry has used_in_response, and
\* validation_message is empty exactly when validation_status is 'valid'.
C20_CountAndValidation ==
    Is200 =>
        /\ response.body.sourceCount = Len(detailed_references)
        /\ response.body.validation_status \in {"valid", "warning"}
        /\ response.body.validation_status = "valid" <=>
               /\ detailed_references # <<>>
               /\ \A i \in 1..Len(detailed_references) :
                     get(detailed_references[i], "relevance_score", 0)
                         >= RELEVANCE_THRESHOLD
               /\ \E i \in 1..Len(detailed_references) :
                     get(detailed_references[i], "used_in_response", FALSE)
        /\ response.body.validation_message = "" <=>
               response.body.validation_status = "valid"

\* A response whose references are all relevant and none of them is used in the
\* generated response: a warning.
C20_Witness ==
    /\ Is200
    /\ detailed_references # <<>>
    /\ \A i \in 1..Len(detailed_references) :
          ~detailed_references[i].used_in_response
    /\ response.body.validation_status = "warning"
    /\ response.body.sourceCount = Len(detailed_references)

\* C21: in a status-200 response, an entry of detailed_references whose uri
\* extract_references marked used_in_response (a sentence of one of its snippets
\* occurs in the generated response) is marked used_in_response.
C21_UsedInResponseKept ==
    Is200 =>
        \A j \in 1..Len(detailed_references) :
            \A i \in 1..Len(references) :
                (references[i].uri = detailed_references[j].uri
                 /\ references[i].used_in_response)
                    => get(detailed_references[j], "used_in_response", FALSE)

\* What the caller gets of a response: the four fields the UI reads.
invocation_result(resp) ==
    [statusCode |-> resp.statusCode,
     generated_response |-> get(resp.body, "generated_response", <<Absent>>),
     detailed_references |-> get(resp.body, "detailed_references", <<Absent>>),
     sessionId |-> get(resp.body, "sessionId", Absent)]

\* C7: lambda_handler is stateless: an invocation that gets the same event and the
\* same answers of the retrieval, rerank and signing services as an earlier
\* invocation returns the same statusCode, generated_response,
\* detailed_references and sessionId, whatever was invoked in between.
C7_Stateless ==
    (pc = "done" /\ memo.set /\ memo.trace = trace)
        => invocation_result(response) = invocation_result(memo.response)

\* The remembered invocation answered 200 with references, another invocation ran
\* since, and the same event and service answers came again.
C7_Witness ==
    /\ pc = "done" /\ memo.set /\ memo.other_since /\ memo.trace = trace
    /\ response.statusCode = 200
    /\ response.body.detailed_references # <<>>
    /\ kb_session # None

(***************************************************************************)
(* Properties of the browser sessions and the ChatHistory table.           *)
(***************************************************************************)
Users == {USER_ID, TEST_USER_ID}
items_of(user) == {i \in table : i.user_id = user}
logged_in(b) == ui_pc[b] \in {"ready", "calling"} /\ st[b].is_authenticated

\* C5: every message a logged-in session displays has a record in the table under
\* the session's user_id and current_conversation_id.
C5_DisplayedMessagesArePersisted ==
    \A b \in Browsers :
        logged_in(b) =>
            \A k \in 1..Len(st[b].messages) :
                \E i \in table :
                    /\ i.user_id = st[b].user_id
                    /\ i.conversation_id = st[b].current_conversation_id
                    /\ i.role = st[b].messages[k].role
                    /\ i.content = st[b].messages[k].content

\* The conversation id of the session came from create_new_session and not from
\* load_conversation, whose messages carry no session_id.
own_conversation(b) ==
    \/ st[b].messages = <<>>
    \/ "session_id" \in DOMAIN st[b].messages[1]

\* C6: two logged-in browser sessions that each started their own conversation
\* never have the same current_conversation_id.
C6_DistinctConversationIds ==
    \A b1, b2 \in Browsers :
        (b1 # b2 /\ logged_in(b1) /\ logged_in(b2)
         /\ own_conversation(b1) /\ own_conversation(b2))
            => st[b1].current_conversation_id # st[b2].current_conversation_id

\* The position of an item of the table in a list of loaded items.
positions(list, item) == {k \in 1..Len(list) : list[k].timestamp = item.timestamp}

saved_by(b) ==
    \/ ui_pc[b] = "ready" /\ ui_pc'[b] = "calling"
    \/ /\ ui_pc[b] = "calling" /\ ui_pc'[b] = "ready"
       /\ Len(st'[b].messages) = Len(st[b].messages) + 1

\* C10: every save_chat that returns True adds one record to the table and
\* overwrites none.
C10_SaveAddsOneRecord ==
    [][(\E b \in Browsers : saved_by(b))
          => Cardinality(items_of(USER_ID))' = Cardinality(items_of(USER_ID)) + 1]_vars

\* get_conversations(user) holds, under the conversation_id of `message`, an item
\* with the role, content, session_id and references of `message`.
read_back(tbl, user, message) ==
    LET conversations == get_conversations(tbl, user)
    IN  \E d \in DOMAIN conversations :
            /\ message.conversation_id \in DOMAIN conversations[d]
            /\ \E k \in 1..Len(conversations[d][message.conversation_id]) :
                  LET item == conversations[d][message.conversation_id][k]
                  IN  /\ item.role = message.role
                      /\ item.content = message.content
                      /\ item.session_id = get(message, "session_id", None)
                      /\ item.references = get(message, "references", <<>>)

last_message(b) == st[b].messages[Len(st[b].messages)]

conversation_ids(tbl, user) ==
    LET conversations == get_conversations(tbl, user)
    IN  UNION {DOMAIN conversations[d] : d \in DOMAIN conversations}

feedback_records(b, idx) ==
    {r \in feedback_table : r.message_idx = idx /\ r.user_id = st[b].user_id}

\* C13: whenever the feedback state of a message index is set and its category
\* panel is closed, the session has written exactly one feedback record for that
\* index: a positive one for 'up', a negative one for 'down'.
C13_FeedbackIsStored ==
    \A b \in PanelBrowsers :
        \A idx \in DOMAIN st[b].feedback_states :
            ~panel_open(st[b], idx) =>
                /\ Cardinality(feedback_records(b, idx)) = 1
                /\ \A r \in feedback_records(b, idx) :
                      r.feedback_type = IF st[b].feedback_states[idx] = "up"
                                        THEN "positive" ELSE "negative"

\* C14: the category panel of a message index is open only if the feedback state
\* of that index is 'down'; a thumbs-up leaves it closed, and Submit and Cancel
\* close it.
C14_PanelOnlyAfterThumbsDown ==
    [][\A b \in PanelBrowsers :
          /\ \A idx \in DOMAIN st'[b].show_feedback_categories :
                panel_open(st'[b], idx) =>
                    /\ idx \in DOMAIN st'[b].feedback_states
                    /\ st'[b].feedback_states[idx] = "down"
          /\ \A idx \in Indexes(b) :
                /\ (\E stored \in BOOLEAN : ThumbsUp(b, idx, stored))
                      => ~panel_open(st'[b], idx)
                /\ Cancel(b, idx) => ~panel_open(st'[b], idx)
                /\ (\E selected_categories \in CategoryChoices,
                        correction \in CorrectionChoices, stored \in BOOLEAN :
                        Submit(b, idx, selected_categories, correction, stored))
                      => ~panel_open(st'[b], idx)]_vars

\* A thumbs-down has opened the panel of a displayed answer and Submit or Cancel
\* has closed it again.
C14_Witness ==
    \E b \in PanelBrowsers :
        \E idx \in DOMAIN st[b].show_feedback_categories :
            /\ is_assistant(st[b], idx)
            /\ st[b].feedback_states[idx] = "down"
            /\ ~panel_open(st[b], idx)

\* C15: for every displayed assistant message with references, the selection
\* selected_ref_<idx> is an index of the message's references list.
C15_SelectedRefIsValid ==
    \A b \in PanelBrowsers :
        \A idx \in Indexes(b) :
            (is_assistant(st[b], idx) /\ message_references(st[b], idx) # <<>>)
                => selected_ref_of(st[b], idx) \in
                       0..(Len(message_references(st[b], idx)) - 1)


\* C22: a handle_chat_input whose save_chat of the user's message fails changes
\* nothing: no message is appended, the API is not called (the session is ready
\* for input, not waiting for a result), the table holds the same records, and
\* session_id and current_conversation_id are as before.
C22_FailedSaveChangesNothing ==
    [][\A b \in Browsers, user_input \in Inputs :
          ChatInputWith(b, user_input, FALSE) =>
              /\ st'[b].messages = st[b].messages
              /\ ui_pc'[b] = "ready"
              /\ table' = table
              /\ st'[b].session_id = st[b].session_id
              /\ st'[b].current_conversation_id = st[b].current_conversation_id
              /\ st' = st]_vars

\* A session has read the clock for a message at clock value 0 and is ready with
\* no message: its save_chat failed (a saved message waits for the API, which
\* cannot return at the same clock value).
C22_Witness ==
    \E b \in Browsers :
        /\ now = 0
        /\ clock_read[b]
        /\ st[b].is_authenticated
        /\ st[b].messages = <<>>
        /\ ui_pc[b] = "ready"
        /\ table = {}

\* The message of _handle_error_response is the last message of session b in the
\* state after the step, with the session_id and conversation_id of the state
\* before it, and the table holds its record at clock value t.
error_appended(b, t) ==
    /\ Len(st'[b].messages) = Len(st[b].messages) + 1
    /\ SubSeq(st'[b].messages, 1, Len(st[b].messages)) = st[b].messages
    /\ LET message == st'[b].messages[Len(st'[b].messages)]
       IN  /\ message.role = "assistant"
           /\ message.content = "Failed to get a valid response from the API."
           /\ message.references = <<>>
           /\ message.session_id = st[b].session_id
           /\ message.conversation_id = st[b].current_conversation_id
           /\ \E i \in table' :
                 /\ i.user_id = st[b].user_id
                 /\ i.timestamp = t
                 /\ i.role = message.role
                 /\ i.content = message.content
                 /\ refs_loads(i.references) = <<>>
                 /\ i.session_id = message.session_id
                 /\ i.conversation_id = message.conversation_id
           /\ \A i \in table' \ table :
                 i.user_id = st[b].user_id /\ i.timestamp = t
    /\ st'[b].session_id = st[b].session_id
    /\ st'[b].current_conversation_id = st[b].current_conversation_id

\* C23 as stated: when call_api returns None, handle_chat_input saves and appends
\* exactly one assistant message with the content 'Failed to get a valid response
\* from the API.' and no references, and session_id and current_conversation_id
\* are unchanged.
C23_ApiFailureAnswered ==
    [][\A b \in Browsers :
          (\E saved \in BOOLEAN : ApiReturnsWith(b, NoResult, saved))
              => error_appended(b, now)]_vars

\* C23, amended: when call_api returns None and the save_chat of the error
\* message returns True, exactly that message is saved and appended; when the
\* save_chat fails, nothing is saved or appended; session_id and
\* current_conversation_id are unchanged in both cases.
C23_ApiFailureAnsweredIfSaved ==
    [][\A b \in Browsers :
          /\ ApiReturnsWith(b, NoResult, TRUE) => error_appended(b, now)
          /\ ApiReturnsWith(b, NoResult, FALSE) =>
                 /\ table' = table
                 /\ st' = st]_vars

\* A session shows the error message after its question and the table holds the
\* records of both.
C23_Witness ==
    \E b \in Browsers :
        /\ Len(st[b].messages) = 2
        /\ st[b].messages[1].role = "user"
        /\ st[b].messages[2].content = "Failed to get a valid response from the API."
        /\ st[b].messages[2].references = <<>>
        /\ ui_pc[b] = "ready"
        /\ \E i, j \in table :
              /\ i.role = "user" /\ j.role = "assistant"
              /\ i.timestamp < j.timestamp
              /\ i.conversation_id = st[b].current_conversation_id
              /\ j.conversation_id = st[b].current_conversation_id
              /\ j.content = st[b].messages[2].content

====
